---- MODULE Spec2Model ----
(***************************************************************************)
(* A model of gencase.py: the vertex-deduplicating Mesh container with its *)
(* reverse-winding face cancellation, the primitive face generators, the   *)
(* transform combinator and the assembly driver emit_solid_case.           *)
(*                                                                         *)
(* Numbers.  A coordinate handed to the mesh is a Python float.  The model *)
(* writes a coordinate as an integer count of raw units, RawPerMm to the   *)
(* millimetre, so that one quantum of the mesh (0.01 mm) is RawPerQuantum  *)
(* raw units.  With RawPerMm = 6400 every multiple of 25 raw units is the  *)
(* dyadic rational k/256 mm, which a float holds exactly, and every        *)
(* multiple of 64 raw units is a whole number of quanta.  A quantized      *)
(* coordinate is an integer count of quanta (hundredths of a millimetre).  *)
(***************************************************************************)
EXTENDS Integers, Sequences, FiniteSets, TLC

VARIABLES
    vertices,      \* Mesh.vertices: quantized point -> index
    vertex_array,  \* Mesh.vertex_array: the quantized points, in index order
    faces,         \* Mesh.faces: set of index triples
    last,          \* the last call made on the mesh: its arguments, the mesh before it, its result
    ops,           \* number of calls made on the mesh so far
    gen,           \* the generator under test: its inputs and what it yielded
    settings,      \* the Settings record of emit_solid_case
    pc             \* emit_solid_case: the next produce(...) call, "write" or "done"

vars == <<vertices, vertex_array, faces, last, ops, gen, settings, pc>>

----------------------------------------------------------------------------
(* Units *)

\* Raw units per quantum: the resolution at which the model writes a float.
RawPerQuantum == 64

\* Quanta per millimetre: Decimal('1.00') has two decimal places.
QuantaPerMm == 100

RawPerMm == RawPerQuantum * QuantaPerMm

\* The absent fourth argument of add_face (d = None).
None == <<>>

Abs(n) == IF n < 0 THEN -n ELSE n

----------------------------------------------------------------------------
(* Mesh *)

\* Mesh._quantize rounding a half up instead of to the even neighbour
\* (ROUND_HALF_UP in place of the context's ROUND_HALF_EVEN).
quantize_half_up(value) ==
    LET q == value \div RawPerQuantum
        r == value % RawPerQuantum
    IN  IF 2 * r < RawPerQuantum THEN q ELSE q + 1

\* Mesh._quantize: Decimal(value).quantize(Decimal('1.00')) under the default
\* context, ROUND_HALF_EVEN.  From raw units to quanta.
quantize(value) ==
    LET q == value \div RawPerQuantum
        r == value % RawPerQuantum
    IN  IF 2 * r < RawPerQuantum THEN q
        ELSE IF 2 * r > RawPerQuantum THEN q + 1
        ELSE IF q % 2 = 0 THEN q ELSE q + 1

\* Mesh.__init__
EmptyMesh == [vertices |-> [k \in {} |-> 0], vertex_array |-> <<>>, faces |-> {}]

\* The mesh held by the state variables.
mesh == [vertices |-> vertices, vertex_array |-> vertex_array, faces |-> faces]

\* posn of Mesh.get_vertex: the three coordinates quantized independently.
Posn(pos) == <<quantize(pos[1]), quantize(pos[2]), quantize(pos[3])>>

\* Mesh.get_vertex that never looks the key up: every call appends.
get_vertex_append(m, pos) ==
    LET posn == Posn(pos)
        index == Len(m.vertex_array)
    IN  [m |-> [m EXCEPT !.vertex_array = Append(@, posn),
                         !.vertices = (posn :> index) @@ @],
         index |-> index]

\* Mesh.get_vertex: the mesh after the call and the index returned.
get_vertex(m, pos) ==
    LET posn == Posn(pos)
    IN  IF posn \in DOMAIN m.vertices
        THEN [m |-> m, index |-> m.vertices[posn]]
        ELSE LET index == Len(m.vertex_array)
             IN  [m |-> [m EXCEPT !.vertex_array = Append(@, posn),
                                  !.vertices = @ @@ (posn :> index)],
                  index |-> index]

\* The try/except of Mesh.add_face on resolved indices.
Cancel(fs, va, vb, vc) ==
    IF <<vc, vb, va>> \in fs
    THEN fs \ {<<vc, vb, va>>}
    ELSE fs \cup {<<va, vb, vc>>}

\* Mesh.add_face that adds the triangle without looking for its reverse.
RECURSIVE add_face_always(_, _, _, _, _)
add_face_always(m, a, b, c, d) ==
    IF d # None
    THEN add_face_always(add_face_always(m, a, b, c, None), a, c, d, None)
    ELSE LET ra == get_vertex(m, a)
             rb == get_vertex(ra.m, b)
             rc == get_vertex(rb.m, c)
         IN  [rc.m EXCEPT !.faces = @ \cup {<<ra.index, rb.index, rc.index>>}]

\* Mesh.add_face that removes the triangle itself, not its reverse, when present
\* (a plain symmetric difference).
RECURSIVE add_face_toggle(_, _, _, _, _)
add_face_toggle(m, a, b, c, d) ==
    IF d # None
    THEN add_face_toggle(add_face_toggle(m, a, b, c, None), a, c, d, None)
    ELSE LET ra == get_vertex(m, a)
             rb == get_vertex(ra.m, b)
             rc == get_vertex(rb.m, c)
             t == <<ra.index, rb.index, rc.index>>
         IN  [rc.m EXCEPT !.faces = IF t \in @ THEN @ \ {t} ELSE @ \cup {t}]

\* Mesh.add_face that splits a quad along its other diagonal: (a,b,d), (b,c,d).
RECURSIVE add_face_diagonal(_, _, _, _, _)
add_face_diagonal(m, a, b, c, d) ==
    IF d # None
    THEN add_face_diagonal(add_face_diagonal(m, a, b, d, None), b, c, d, None)
    ELSE LET ra == get_vertex(m, a)
             rb == get_vertex(ra.m, b)
             rc == get_vertex(rb.m, c)
         IN  [rc.m EXCEPT !.faces = Cancel(@, ra.index, rb.index, rc.index)]

\* Mesh.add_face(a, b, c, d = None): the mesh after the call.
RECURSIVE add_face(_, _, _, _, _)
add_face(m, a, b, c, d) ==
    IF d # None
    THEN add_face(add_face(m, a, b, c, None), a, c, d, None)
    ELSE LET ra == get_vertex(m, a)
             rb == get_vertex(ra.m, b)
             rc == get_vertex(rb.m, c)
         IN  [rc.m EXCEPT !.faces = Cancel(@, ra.index, rb.index, rc.index)]

----------------------------------------------------------------------------
(* The mesh driven by arbitrary callers *)

\* Calls made on one mesh.
MaxOps == 2

\* The points callers pass, in raw units (25 raw units are 1/256 mm).
\*   PA   the origin.
\*   PC   (0, 0.125, 0.375) mm: y and z lie exactly half way between two quanta
\*        (12.5 and 37.5), and quantize to (0, 12, 38).
\*   PC2  PC moved by 1/256 mm in each axis; quantizes to (0, 12, 38) too.
\*   PB   PC moved by 2/256, 1/256 and -1/256 mm; quantizes to (1, 13, 37).
\*   PD   (1, 0, 0) mm.
PA == <<0, 0, 0>>
PC == <<0, 800, 2400>>
PC2 == <<25, 775, 2425>>
PB == <<50, 825, 2375>>
PD == <<6400, 0, 0>>

Points == {PA, PC, PC2, PB, PD}

\* The points triangles are drawn from.
TriPoints == {PA, PC, PC2, PB}

\* The corner sets quads are drawn from: four distinct vertices, and four
\* corners two of which quantize to one vertex.
QuadCorners == {{PA, PB, PC, PD}, {PA, PC, PC2, PD}}

\* Every ordering of every corner set.
Quads ==
    UNION {{q \in [1..4 -> K] : \A i, j \in 1..4 : i # j => q[i] # q[j]} : K \in QuadCorners}

\* The state of the history variable before any call.
NoCall == [op |-> "init", args |-> <<>>, pre |-> EmptyMesh, ret |-> -1]

\* The generator and driver variables while only the mesh is exercised.
Idle ==
    /\ gen = [name |-> "none", args |-> <<>>, out |-> <<>>]
    /\ settings = [parts |-> {}]
    /\ pc = "idle"

Init ==
    /\ vertices = EmptyMesh.vertices
    /\ vertex_array = EmptyMesh.vertex_array
    /\ faces = EmptyMesh.faces
    /\ last = NoCall
    /\ ops = 0
    /\ Idle

\* The state variables take the mesh m.
SetMesh(m) ==
    /\ vertices' = m.vertices
    /\ vertex_array' = m.vertex_array
    /\ faces' = m.faces

\* A caller calls get_vertex(pos).
GetVertex(pos) ==
    /\ ops < MaxOps
    /\ LET r == get_vertex(mesh, pos)
       IN  /\ SetMesh(r.m)
           /\ last' = [op |-> "get_vertex", args |-> <<pos>>, pre |-> mesh, ret |-> r.index]
    /\ ops' = ops + 1
    /\ UNCHANGED <<gen, settings, pc>>

\* A caller calls add_face(a, b, c).
AddFace3(a, b, c) ==
    /\ ops < MaxOps
    /\ SetMesh(add_face(mesh, a, b, c, None))
    /\ last' = [op |-> "add_face3", args |-> <<a, b, c>>, pre |-> mesh, ret |-> -1]
    /\ ops' = ops + 1
    /\ UNCHANGED <<gen, settings, pc>>

\* A caller calls add_face(a, b, c, d).
AddFace4(a, b, c, d) ==
    /\ ops < MaxOps
    /\ SetMesh(add_face(mesh, a, b, c, d))
    /\ last' = [op |-> "add_face4", args |-> <<a, b, c, d>>, pre |-> mesh, ret |-> -1]
    /\ ops' = ops + 1
    /\ UNCHANGED <<gen, settings, pc>>

Next ==
    \/ \E pos \in Points : GetVertex(pos)
    \/ \E a, b, c \in TriPoints : AddFace3(a, b, c)
    \/ \E q \in Quads : AddFace4(q[1], q[2], q[3], q[4])

Spec == Init /\ [][Next]_vars

----------------------------------------------------------------------------
(* Properties of the mesh *)

\* The triple in reverse order.
Rev(t) == <<t[3], t[2], t[1]>>

\* The index a point passed to the last call resolved to.
Idx(pos) == vertices[Posn(pos)]

\* The index triple of the triangle the last add_face(a, b, c) submitted.
LastTri == <<Idx(last.args[1]), Idx(last.args[2]), Idx(last.args[3])>>

\* C1: add_face(a, b, c) with the reverse (c,b,a) in the face set removes the
\* reverse and does not add (a,b,c); with neither (a,b,c) nor (c,b,a) in the
\* set it adds (a,b,c) and removes nothing; no other face changes.
C1_CancellationRule ==
    last.op = "add_face3" =>
        LET t == LastTri
            before == last.pre.faces
        IN  /\ Rev(t) \in before =>
                /\ Rev(t) \notin faces
                /\ t \in faces => t \in before
            /\ (t \notin before /\ Rev(t) \notin before) =>
                /\ t \in faces
                /\ before \subseteq faces
            /\ \A f \in before \cup faces :
                f \notin {t, Rev(t)} => (f \in faces <=> f \in before)

\* C1 witness: a triangle was submitted whose reverse, a different triple, was
\* in the face set.
C1_Witness ==
    /\ last.op = "add_face3"
    /\ Rev(LastTri) \in last.pre.faces
    /\ Rev(LastTri) # LastTri

\* C2 as claimed: after add_face(a, b, c), add_face(c, b, a) brings the face
\* set back to what it was before the first call, whatever it held.
C2_SelfInverseAlways ==
    last.op = "add_face3" =>
        add_face(mesh, last.args[3], last.args[2], last.args[1], None).faces
            = last.pre.faces

\* C2 amended: after add_face(a, b, c), add_face(c, b, a) brings the face set
\* back to what it was before the first call, provided (a,b,c) was not in the
\* set before the first call or a and c resolve to one vertex.
C2_SelfInverse ==
    (/\ last.op = "add_face3"
     /\ (LastTri \notin last.pre.faces \/ LastTri[1] = LastTri[3])) =>
        add_face(mesh, last.args[3], last.args[2], last.args[1], None).faces
            = last.pre.faces

\* C2 witness: a triangle absent from a non-empty face set was submitted, and
\* its reverse was there to be removed.
C2_Witness ==
    /\ last.op = "add_face3"
    /\ LastTri \notin last.pre.faces
    /\ Rev(LastTri) \in last.pre.faces
    /\ Cardinality(last.pre.faces) > 1

\* The index triples of the two submissions of a quad: (a,b,c), (a,c,d) and,
\* for the reversed quad, (d,c,b), (d,b,a).
QuadTris(a, b, c, d) == {<<a, b, c>>, <<a, c, d>>, <<d, c, b>>, <<d, b, a>>}

\* C3: on a mesh holding no triangle over four distinct vertices a, b, c, d,
\* add_face(a, b, c, d) followed by add_face(d, c, b, a) leaves no face of
\* either submission in the face set.
C3_ReversedQuadAnnihilates ==
    LET a == last.args[1]
        b == last.args[2]
        c == last.args[3]
        d == last.args[4]
        corners == {Idx(a), Idx(b), Idx(c), Idx(d)}
    IN  (/\ last.op = "add_face4"
         /\ Cardinality(corners) = 4
         /\ \A f \in last.pre.faces : ~({f[1], f[2], f[3]} \subseteq corners)) =>
            add_face(mesh, d, c, b, a).faces
                \cap QuadTris(Idx(a), Idx(b), Idx(c), Idx(d)) = {}

\* The quantized points of a sequence of points appended to a vertex list in
\* the order they are first seen.
RECURSIVE FirstSeen(_, _)
FirstSeen(arr, pts) ==
    IF pts = <<>> THEN arr
    ELSE LET k == Posn(Head(pts))
         IN  FirstSeen(IF \E i \in 1..Len(arr) : arr[i] = k THEN arr ELSE Append(arr, k),
                       Tail(pts))

\* The points the last call resolved, in the order it resolved them.
LastResolved ==
    IF last.op = "add_face4"
    THEN <<last.args[1], last.args[2], last.args[3],
           last.args[1], last.args[3], last.args[4]>>
    ELSE last.args

\* C5: indices are 0..n-1 in first-seen order, vertex_array[i] is the key
\* registered with index i, and get_vertex of a registered point returns its
\* index and leaves the mapping and the sequence unchanged.
C5_RegistryInvariant ==
    /\ DOMAIN vertices = {vertex_array[i] : i \in 1..Len(vertex_array)}
    /\ \A i \in 1..Len(vertex_array) : vertices[vertex_array[i]] = i - 1
    /\ vertex_array = FirstSeen(last.pre.vertex_array, LastResolved)
    /\ last.op = "get_vertex" =>
        /\ vertex_array[last.ret + 1] = Posn(last.args[1])
        /\ Posn(last.args[1]) \in DOMAIN last.pre.vertices =>
            /\ last.ret = last.pre.vertices[Posn(last.args[1])]
            /\ vertices = last.pre.vertices
            /\ vertex_array = last.pre.vertex_array

\* C5 witness: get_vertex was called for a point registered earlier, not as
\* the first vertex.
C5_Witness ==
    /\ last.op = "get_vertex"
    /\ Posn(last.args[1]) \in DOMAIN last.pre.vertices
    /\ last.ret > 0

\* Two points less than one quantum apart in each axis.
Close(p, q) == \A i \in 1..3 : Abs(p[i] - q[i]) < RawPerQuantum

\* The raw value x rounds to k quanta: 64k is its nearest multiple of the
\* quantum, the even one of the two when x is half way.
RoundsTo(x, k) ==
    LET dist == Abs(x - k * RawPerQuantum)
    IN  \/ 2 * dist < RawPerQuantum
        \/ 2 * dist = RawPerQuantum /\ k % 2 = 0

\* Two points whose coordinates round to the same quantum in each axis.
SameCell(p, q) ==
    \A i \in 1..3 :
        \E k \in (p[i] \div RawPerQuantum)..(p[i] \div RawPerQuantum + 1) :
            RoundsTo(p[i], k) /\ RoundsTo(q[i], k)

\* C6 as claimed: get_vertex returns the same index for two points less than
\* one quantization step apart in each axis.
C6_CloseSameIndex ==
    last.op = "get_vertex" =>
        \A q \in Points :
            Close(last.args[1], q) => get_vertex(mesh, q).index = last.ret

\* C6 amended: get_vertex returns the same index for two points whose
\* coordinates round, half to even, to the same multiple of the step in each
\* axis.
C6_SameCellSameIndex ==
    last.op = "get_vertex" =>
        \A q \in Points :
            SameCell(last.args[1], q) => get_vertex(mesh, q).index = last.ret

\* C6 witness: get_vertex was called for a point that shares its cell with a
\* different point, one coordinate of which lies half way between two quanta.
C6_Witness ==
    /\ last.op = "get_vertex"
    /\ \E q \in Points :
        /\ q # last.args[1]
        /\ SameCell(last.args[1], q)
        /\ \E i \in 1..3 : 2 * (q[i] % RawPerQuantum) = RawPerQuantum

\* C7: add_face(a, b, c, d) leaves the mesh as add_face(a, b, c) followed by
\* add_face(a, c, d) leaves it.
C7_QuadSplit ==
    last.op = "add_face4" =>
        mesh = add_face(add_face(last.pre, last.args[1], last.args[2], last.args[3], None),
                        last.args[1], last.args[3], last.args[4], None)

\* C7 witness: a quad was submitted to a non-empty mesh and one of its
\* triangles cancelled a face.
C7_Witness ==
    /\ last.op = "add_face4"
    /\ \E f \in last.pre.faces : f \notin faces

\* C10: the face set never holds a triple (a,b,c) with a # c together with
\* its reverse (c,b,a).
C10_NoReversePair ==
    \A f \in faces : f[1] # f[3] => Rev(f) \notin faces

\* C10 witness: a call cancelled a face and left others in the set.
C10_Witness ==
    /\ last.op \in {"add_face3", "add_face4"}
    /\ \E f \in last.pre.faces : f \notin faces
    /\ \E f \in faces : f[1] # f[3]

----------------------------------------------------------------------------
(* Primitive generators.  A generator is modelled by the finite sequence it  *)
(* yields; a face is a sequence of three or four points in raw units.        *)

\* reversed(...)
Reverse(s) == [i \in 1..Len(s) |-> s[Len(s) + 1 - i]]

\* value * 0.5, exact for the even raw values the model passes.
Half(value) == value \div 2

\* Points per quarter turn (POINTS).
POINTS == 30

\* Angles are counted in ticks of pi/60: TOTAL = 2*pi is 120 ticks, TOTAL =
\* pi/2 is 30 ticks.
FullTurn == 120
QuarterTurn == 30

\* math.sin over the first quarter turn, for 0..30 ticks, in millionths.
SinTable ==
    << 0, 52336, 104528, 156434, 207912, 258819, 309017, 358368, 406737,
       453990, 500000, 544639, 587785, 629320, 669131, 707107, 743145, 777146,
       809017, 838671, 866025, 891007, 913545, 933580, 951057, 965926, 978148,
       987688, 994522, 998630, 1000000 >>

\* math.sin(angle) in millionths, angle in ticks, by the symmetries of the sine.
Sin(angle) ==
    LET a == angle % FullTurn
    IN  IF a <= 30 THEN SinTable[a + 1]
        ELSE IF a <= 60 THEN SinTable[60 - a + 1]
        ELSE IF a <= 90 THEN -SinTable[a - 60 + 1]
        ELSE -SinTable[120 - a + 1]

\* math.cos(angle) in millionths, angle in ticks.
Cos(angle) == Sin(angle + 30)

\* s * radius for s in millionths and radius >= 0 in raw units: the product in
\* raw units.  The radius is split in thousands so that no intermediate
\* product leaves 32 bits.  A product that is no whole number of raw units is
\* written as its odd neighbour: every quantum boundary and every half-way
\* point is an even raw value, so the value written lies on the same side of
\* each of them as the product does, and quantizes as the product does.
Scale(s, radius) ==
    LET m == Abs(s)
        hi == m * (radius \div 1000)
        frac == (hi % 1000) * 1000 + m * (radius % 1000)
        whole == hi \div 1000 + frac \div 1000000
        v == IF frac % 1000000 # 0 /\ whole % 2 = 0 THEN whole + 1 ELSE whole
    IN  IF s < 0 THEN -v ELSE v

\* generate_corner looping over range(POINTS): the last point of the sweep
\* is left out.
generate_corner_short(radius, full) ==
    LET points == IF full THEN POINTS * 4 ELSE POINTS
        total == IF full THEN FullTurn ELSE QuarterTurn
    IN  [k \in 1..points |->
            LET angle == ((k - 1) * total) \div points
            IN  <<-Scale(Sin(angle), radius), -Scale(Cos(angle), radius)>>]

\* generate_corner(radius, full): the points yielded, for i in range(POINTS + 1).
generate_corner(radius, full) ==
    LET points == IF full THEN POINTS * 4 ELSE POINTS
        total == IF full THEN FullTurn ELSE QuarterTurn
    IN  [k \in 1..(points + 1) |->
            LET angle == ((k - 1) * total) \div points
            IN  <<-Scale(Sin(angle), radius), -Scale(Cos(angle), radius)>>]

\* generate_chamfer with every quad yielded in the order it is written.
generate_chamfer_unreversed(width, length, thickness, height) ==
    LET hw == Half(width)
        hl == Half(length)
    IN  << << <<-hw, -hl, height>>,
              <<-hw + thickness, -hl + thickness, height - thickness>>,
              <<hw - thickness, -hl + thickness, height - thickness>>,
              <<hw, -hl, height>> >>,
           << <<-hw, hl, height>>,
              <<-hw + thickness, hl - thickness, height - thickness>>,
              <<hw - thickness, hl - thickness, height - thickness>>,
              <<hw, hl, height>> >>,
           << <<-hw, -hl, height>>,
              <<-hw + thickness, -hl + thickness, height - thickness>>,
              <<-hw + thickness, hl - thickness, height - thickness>>,
              <<-hw, hl, height>> >>,
           << <<hw, -hl, height>>,
              <<hw - thickness, -hl + thickness, height - thickness>>,
              <<hw - thickness, hl - thickness, height - thickness>>,
              <<hw, hl, height>> >> >>

\* generate_chamfer(width, length, thickness, height): the four quads yielded.
generate_chamfer(width, length, thickness, height) ==
    LET hw == Half(width)
        hl == Half(length)
    IN  << << <<-hw, -hl, height>>,
              <<-hw + thickness, -hl + thickness, height - thickness>>,
              <<hw - thickness, -hl + thickness, height - thickness>>,
              <<hw, -hl, height>> >>,
           Reverse(<< <<-hw, hl, height>>,
                      <<-hw + thickness, hl - thickness, height - thickness>>,
                      <<hw - thickness, hl - thickness, height - thickness>>,
                      <<hw, hl, height>> >>),
           Reverse(<< <<-hw, -hl, height>>,
                      <<-hw + thickness, -hl + thickness, height - thickness>>,
                      <<-hw + thickness, hl - thickness, height - thickness>>,
                      <<-hw, hl, height>> >>),
           << <<hw, -hl, height>>,
              <<hw - thickness, -hl + thickness, height - thickness>>,
              <<hw - thickness, hl - thickness, height - thickness>>,
              <<hw, hl, height>> >> >>

\* pairwise(iterable): (s0,s1), (s1,s2), ...
pairwise(s) == [i \in 1..(Len(s) - 1) |-> <<s[i], s[i + 1]>>]

\* triplewise(iterable): (s0,s1,s2), (s1,s2,s3), ...
triplewise(s) == [i \in 1..(Len(s) - 2) |-> <<s[i], s[i + 1], s[i + 2]>>]

\* A point map t of transform.  Every lambda of the program sends (x, y, z) to
\* three terms, each a coordinate of the point, negated or not, plus a
\* constant; a map is written as its three terms <<sign, coordinate, constant>>.
\* Apply is t(*x).
Apply(t, pos) == [i \in 1..3 |-> t[i][1] * pos[t[i][2]] + t[i][3]]

\* lambda x, y, z: (x, y, z), the default of transform.
Identity == << <<1, 1, 0>>, <<1, 2, 0>>, <<1, 3, 0>> >>

\* transform(source, t, inverting): t applied to every point of every face,
\* the face's points reversed when inverting.
transform(source, t, inverting) ==
    [i \in 1..Len(source) |->
        LET item == source[i]
            result == [j \in 1..Len(item) |-> Apply(t, item[j])]
        IN  IF inverting THEN Reverse(result) ELSE result]

\* generate_corner_with_hole(width, length, hole): the triangle fan of one
\* quadrant.
generate_corner_with_hole(width, length, hole) ==
    LET hw == Half(width)
        hl == Half(length)
        arc == generate_corner(hole, FALSE)
        points == <<<<0, -hl, 0>>>>
                    \o [i \in 1..Len(arc) |-> <<arc[i][1], arc[i][2], 0>>]
                    \o <<<<-hw, 0, 0>>>>
        pairs == pairwise(points)
    IN  [i \in 1..Len(pairs) |-> <<<<-hw, -hl, 0>>, pairs[i][1], pairs[i][2]>>]

\* generate_hole_edge(radius, depth): the band of triangles of the hole wall.
generate_hole_edge(radius, depth) ==
    LET arc == generate_corner(radius, TRUE)
        points == [i \in 1..(2 * Len(arc)) |->
                      IF i % 2 = 1
                      THEN <<arc[(i + 1) \div 2][1], arc[(i + 1) \div 2][2], 0>>
                      ELSE <<arc[i \div 2][1], arc[i \div 2][2], depth>>]
        triples == triplewise(points)
    IN  [i \in 1..Len(triples) |->
            IF i % 2 = 1
            THEN <<triples[i][3], triples[i][2], triples[i][1]>>
            ELSE triples[i]]

\* generate_face_with_hole(width, length, hole): the four quadrants.
generate_face_with_hole(width, length, hole) ==
    generate_corner_with_hole(width, length, hole)
        \o transform(generate_corner_with_hole(width, length, hole),
                     << <<-1, 1, 0>>, <<1, 2, 0>>, <<1, 3, 0>> >>, TRUE)  \* (-x, y, z)
        \o transform(generate_corner_with_hole(width, length, hole),
                     << <<1, 1, 0>>, <<-1, 2, 0>>, <<1, 3, 0>> >>, TRUE)  \* (x, -y, z)
        \o transform(generate_corner_with_hole(width, length, hole),
                     << <<-1, 1, 0>>, <<-1, 2, 0>>, <<1, 3, 0>> >>, FALSE)  \* (-x, -y, z)

\* generate_face(width, length, thickness, hole, height): one panel.
generate_face(width, length, thickness, hole, height) ==
    LET hw == Half(width)
        hl == Half(length)
    IN  generate_chamfer(width, length, thickness, height)
            \o IF hole # 0
               THEN transform(generate_face_with_hole(width, length, hole),
                              << <<1, 1, 0>>, <<1, 2, 0>>, <<1, 3, height>> >>, FALSE)  \* (x, y, z + height)
                    \o transform(generate_face_with_hole(width - thickness * 2,
                                                         length - thickness * 2,
                                                         hole),
                                 << <<1, 1, 0>>, <<1, 2, 0>>, <<1, 3, height - thickness>> >>, TRUE)  \* (x, y, height + z - thickness)
                    \o transform(generate_hole_edge(hole, thickness),
                                 << <<1, 1, 0>>, <<1, 2, 0>>, <<1, 3, height - thickness>> >>, FALSE)  \* (x, y, height + z - thickness)
               ELSE << << <<-hw, -hl, height>>,
                          <<hw, -hl, height>>,
                          <<hw, hl, height>>,
                          <<-hw, hl, height>> >>,
                       << <<-hw + thickness, -hl + thickness, height - thickness>>,
                          <<-hw + thickness, hl - thickness, height - thickness>>,
                          <<hw - thickness, hl - thickness, height - thickness>>,
                          <<hw - thickness, -hl + thickness, height - thickness>> >> >>

----------------------------------------------------------------------------
(* The assembly driver *)

CASE_ == "c"
LID == "l"

\* The defaults of the command line, in millimetres.
WidthMm == 100
LengthMm == 100
ThicknessMm == 5
DepthMm == 60
ButtonMm == 22
CableMm == 5
ClearanceMm == 1

\* The values --width, --depth and --thickness take in the model.
Widths == {WidthMm, 80}
Depths == {DepthMm, 40}
Thicknesses == {ThicknessMm, 4}

\* float(parsed_args[...]) of a whole number of millimetres, in raw units.
Float(mm) == mm * RawPerMm

\* to_settings: the Settings record of one command line.
to_settings(parts, surface, width, depth, thickness) ==
    [button |-> Float(ButtonMm),
     cable |-> Float(CableMm),
     clearance |-> Float(ClearanceMm),
     thickness |-> Float(thickness),
     depth |-> Float(depth),
     width |-> Float(width),
     length |-> Float(LengthMm),
     with_surface |-> surface,
     parts |-> parts]

\* The produce(...) calls of emit_solid_case, in program order.
Panels == <<"top", "surface", "bottom", "front", "back", "right", "left">>

\* The position after the produce call at position p.
After(p) ==
    LET i == CHOOSE k \in 1..Len(Panels) : Panels[k] = p
    IN  IF i = Len(Panels) THEN "write" ELSE Panels[i + 1]

\* The conditions under which emit_solid_case makes the produce call p.
Wanted(p, s) ==
    IF p = "top" THEN LID \in s.parts
    ELSE IF p = "surface" THEN LID \in s.parts /\ s.with_surface
    ELSE CASE_ \in s.parts

\* The faces the produce call p passes to the mesh: transform(*args, **kwargs).
PanelFaces(p, s) ==
    LET hw == Half(s.width)
        hl == Half(s.length)
        d == s.depth
        hd == Half(d)
    IN  CASE p = "top" ->
               transform(generate_face(s.width, s.length, s.thickness,
                                       s.button + s.clearance, d),
                         Identity, FALSE)
          [] p = "surface" ->
               transform(generate_face(s.width, s.length, s.thickness,
                                       s.button + s.clearance, 0),
                         << <<1, 1, 0>>, <<1, 2, 0>>, <<-1, 3, d>> >>, TRUE)  \* (x, y, -z + d)
          [] p = "bottom" ->
               transform(generate_face(s.width, s.length, s.thickness, 0, 0),
                         << <<1, 1, 0>>, <<1, 2, 0>>, <<-1, 3, 0>> >>, TRUE)  \* (x, y, -z)
          [] p = "front" ->
               transform(generate_face(s.width, s.depth, s.thickness, 0, 0),
                         << <<1, 1, 0>>, <<-1, 3, -hl>>, <<1, 2, hd>> >>, FALSE)  \* (x, -z - hl, hd + y)
          [] p = "back" ->
               transform(generate_face(s.width, s.depth, s.thickness,
                                       s.cable + s.clearance, 0),
                         << <<1, 1, 0>>, <<1, 3, hl>>, <<1, 2, hd>> >>, TRUE)  \* (x, z + hl, hd + y)
          [] p = "right" ->
               transform(generate_face(s.length, s.depth, s.thickness, 0, 0),
                         << <<1, 3, hw>>, <<1, 1, 0>>, <<1, 2, hd>> >>, FALSE)  \* (z + hw, x, hd + y)
          [] p = "left" ->
               transform(generate_face(s.length, s.depth, s.thickness, 0, 0),
                         << <<-1, 3, -hw>>, <<1, 1, 0>>, <<1, 2, hd>> >>, TRUE)  \* (-z - hw, x, hd + y)

\* m.add_face(*tuple(face))
AddFace(m, face) ==
    add_face(m, face[1], face[2], face[3], IF Len(face) = 4 THEN face[4] ELSE None)

\* The loop of produce over the faces fs[lo..hi], in order.  The range is
\* halved, and the mesh after the first half is computed (its length is
\* looked at) before the second half starts, which keeps the evaluation
\* shallow; the faces are added one by one, first to last.
RECURSIVE ProduceRange(_, _, _, _)
ProduceRange(m, fs, lo, hi) ==
    IF lo > hi THEN m
    ELSE IF lo = hi THEN AddFace(m, fs[lo])
    ELSE LET mid == (lo + hi) \div 2
             first == ProduceRange(m, fs, lo, mid)
         IN  IF Len(first.vertex_array) >= 0
             THEN ProduceRange(first, fs, mid + 1, hi)
             ELSE first

\* produce(*args, **kwargs): every face of the sequence added to the mesh.
produce(m, fs) == ProduceRange(m, fs, 1, Len(fs))

\* main: the command line is parsed and emit_solid_case starts on an empty mesh.
InitAsm ==
    /\ vertices = EmptyMesh.vertices
    /\ vertex_array = EmptyMesh.vertex_array
    /\ faces = EmptyMesh.faces
    /\ last = NoCall
    /\ ops = 0
    /\ gen = [name |-> "none", args |-> <<>>, out |-> <<>>]
    /\ \E parts \in {{LID}, {CASE_}, {LID, CASE_}}, surface \in BOOLEAN,
          width \in Widths, depth \in Depths, thickness \in Thicknesses :
            settings = to_settings(parts, surface, width, depth, thickness)
    /\ pc = Panels[1]

\* emit_solid_case makes its next produce call.
Produce ==
    /\ pc \in {Panels[i] : i \in 1..Len(Panels)}
    /\ Wanted(pc, settings)
    /\ SetMesh(produce(mesh, PanelFaces(pc, settings)))
    /\ pc' = After(pc)
    /\ UNCHANGED <<last, ops, gen, settings>>

\* emit_solid_case passes over a produce call its settings do not ask for.
Skip ==
    /\ pc \in {Panels[i] : i \in 1..Len(Panels)}
    /\ ~Wanted(pc, settings)
    /\ pc' = After(pc)
    /\ UNCHANGED <<vertices, vertex_array, faces, last, ops, gen, settings>>

\* m.write(sys.stdout): the text is a function of vertex_array and faces,
\* which the call leaves as they are.
Write ==
    /\ pc = "write"
    /\ pc' = "done"
    /\ UNCHANGED <<vertices, vertex_array, faces, last, ops, gen, settings>>

NextAsm == Produce \/ Skip \/ Write

SpecAsm == InitAsm /\ [][NextAsm]_vars

\* The undirected edges of a face.
EdgesOf(f) == {{f[1], f[2]}, {f[2], f[3]}, {f[3], f[1]}}

\* C4: after emit_solid_case has added every panel of the default assembly
\* (lid and case, no surface), every undirected edge of the face set occurs
\* in exactly two faces.
C4_ClosedMesh ==
    (/\ pc = "done"
     /\ settings = to_settings({LID, CASE_}, FALSE, WidthMm, DepthMm, ThicknessMm)) =>
        \A f \in faces : \A e \in EdgesOf(f) :
            Cardinality({g \in faces : e \in EdgesOf(g)}) = 2

----------------------------------------------------------------------------
(* The generators called on their own *)

\* The largest size, in steps, a generator is called with.
MaxSize == 5

\* Widths and lengths: 2, 4, ... millimetres.
Sizes == {Float(2 * k) : k \in 1..MaxSize}

\* Radii: 1, 2, ... millimetres.
Radii == {Float(k) : k \in 1..MaxSize}

\* Thicknesses and heights.
ThicknessesIn == {Float(1), Float(2)}
Heights == {0, Float(5)}

InitGen ==
    /\ vertices = EmptyMesh.vertices
    /\ vertex_array = EmptyMesh.vertex_array
    /\ faces = EmptyMesh.faces
    /\ last = NoCall
    /\ ops = 0
    /\ gen = [name |-> "none", args |-> <<>>, out |-> <<>>]
    /\ settings = [parts |-> {}]
    /\ pc = "idle"

\* A caller runs generate_corner(radius, full) to its end.
CallCorner(radius, full) ==
    /\ gen' = [name |-> "generate_corner",
               args |-> <<radius, full>>,
               out |-> generate_corner(radius, full)]
    /\ UNCHANGED <<vertices, vertex_array, faces, last, ops, settings, pc>>

\* A caller runs generate_chamfer(width, length, thickness, height) to its end.
CallChamfer(width, length, thickness, height) ==
    /\ gen' = [name |-> "generate_chamfer",
               args |-> <<width, length, thickness, height>>,
               out |-> generate_chamfer(width, length, thickness, height)]
    /\ UNCHANGED <<vertices, vertex_array, faces, last, ops, settings, pc>>

NextGen ==
    \/ \E radius \in Radii, full \in BOOLEAN : CallCorner(radius, full)
    \/ \E width \in Sizes, length \in Sizes, thickness \in ThicknessesIn, height \in Heights :
           CallChamfer(width, length, thickness, height)

SpecGen == InitGen /\ [][NextGen]_vars

\* The point of the circle of the given radius at the given angle (in ticks).
ArcPoint(radius, angle) == <<-Scale(Sin(angle), radius), -Scale(Cos(angle), radius)>>

\* The sweep asked of generate_corner, in ticks of 3 degrees.
Sweep(full) == IF full THEN FullTurn ELSE QuarterTurn

\* C8 as claimed: generate_corner yields exactly 30 points (quarter turn) or
\* exactly 120 points (full turn), at evenly spaced angles over the sweep.
C8_CornerPointCount ==
    gen.name = "generate_corner" =>
        LET n == IF gen.args[2] THEN 120 ELSE 30
        IN  /\ Len(gen.out) = n
            /\ \A k \in 1..Len(gen.out) :
                   gen.out[k] = ArcPoint(gen.args[1], ((k - 1) * Sweep(gen.args[2])) \div n)

\* C8 amended: generate_corner yields exactly 31 points (quarter turn) or
\* exactly 121 points (full turn): both ends of the sweep and the points
\* between them, 30 or 120 equal steps of 3 degrees apart.
C8_CornerPointCountPlusOne ==
    gen.name = "generate_corner" =>
        LET n == IF gen.args[2] THEN 120 ELSE 30
        IN  /\ Len(gen.out) = n + 1
            /\ \A k \in 1..Len(gen.out) :
                   gen.out[k] = ArcPoint(gen.args[1], ((k - 1) * Sweep(gen.args[2])) \div n)

\* C8 witness: generate_corner has run over a full turn.
C8_Witness ==
    /\ gen.name = "generate_corner"
    /\ gen.args[2]
    /\ Len(gen.out) > 0

\* A quad of the chamfer in the shape (outer corner, inset corner, inset
\* corner, outer corner), for the arguments of the last generate_chamfer.
ChamferShape(q) ==
    LET height == gen.args[4]
        thickness == gen.args[3]
    IN  /\ Len(q) = 4
        /\ q[1][3] = height /\ q[4][3] = height
        /\ q[2][3] = height - thickness /\ q[3][3] = height - thickness

\* The rectangle edge a quad of the chamfer lies on.
OnFront(q) == q[1][2] = -Half(gen.args[2]) /\ q[4][2] = -Half(gen.args[2])
OnBack(q) == q[1][2] = Half(gen.args[2]) /\ q[4][2] = Half(gen.args[2])
OnLeft(q) == q[1][1] = -Half(gen.args[1]) /\ q[4][1] = -Half(gen.args[1])
OnRight(q) == q[1][1] = Half(gen.args[1]) /\ q[4][1] = Half(gen.args[1])

\* The order a quad is written in: every quad of generate_chamfer is written
\* from the outer corner at the negative end of its edge to the outer corner
\* at the positive end (x along the front and the back, y along the sides),
\* each inset corner next to its outer corner.
AsWritten(q) ==
    LET axis == IF OnFront(q) \/ OnBack(q) THEN 1 ELSE 2
        thickness == gen.args[3]
    IN  /\ q[1][axis] < 0 /\ q[4][axis] > 0
        /\ q[2][axis] = q[1][axis] + thickness
        /\ q[3][axis] = q[4][axis] - thickness

\* One quad per rectangle edge, each in the outer-inset-inset-outer shape.
OneQuadPerEdge(out) ==
    /\ Len(out) = 4
    /\ \A i \in 1..4 : ChamferShape(out[i])
    /\ \E i \in 1..4 : OnFront(out[i])
    /\ \E i \in 1..4 : OnBack(out[i])
    /\ \E i \in 1..4 : OnLeft(out[i])
    /\ \E i \in 1..4 : OnRight(out[i])

\* C9 as claimed: generate_chamfer yields four quads, one per edge; the front
\* and back quads in their as-written point order, the left and right quads
\* with that order reversed.
C9_ChamferFrontBackAsWritten ==
    gen.name = "generate_chamfer" =>
        /\ OneQuadPerEdge(gen.out)
        /\ \A i \in 1..Len(gen.out) :
            LET q == gen.out[i]
            IN  /\ (OnFront(q) \/ OnBack(q)) => AsWritten(q)
                /\ (OnLeft(q) \/ OnRight(q)) => AsWritten(Reverse(q))

\* C9 amended: generate_chamfer yields four quads, one per edge; the front
\* (y = -length/2) and right (x = +width/2) quads in their as-written point
\* order, the back (y = +length/2) and left (x = -width/2) quads with that
\* order reversed.
C9_ChamferFrontRightAsWritten ==
    gen.name = "generate_chamfer" =>
        /\ OneQuadPerEdge(gen.out)
        /\ \A i \in 1..Len(gen.out) :
            LET q == gen.out[i]
            IN  /\ (OnFront(q) \/ OnRight(q)) => AsWritten(q)
                /\ (OnBack(q) \/ OnLeft(q)) => AsWritten(Reverse(q))

\* C9 witness: generate_chamfer has run on a rectangle that is no square.
C9_Witness ==
    /\ gen.name = "generate_chamfer"
    /\ gen.args[1] # gen.args[2]
    /\ Len(gen.out) = 4

====
